---- MODULE Spec2Model ----
(***************************************************************************)
(* A model of server.py: the Flask handlers /pointer (GET and POST) and    *)
(* /windows, and the window filter fetch_window_dims.                      *)
(*                                                                         *)
(* Flask's development server handles each request on its own thread, so  *)
(* the handlers are modelled as steps of NThreads request threads sharing  *)
(* the module global `pointer`.  A step boundary is placed at each access  *)
(* to that global; the statements between two accesses only touch locals  *)
(* of the handler and are folded into a neighbouring step.                 *)
(*                                                                         *)
(* The thread started at line 153 calls fetch_window_dims once and drops   *)
(* the result; it touches no state of the handlers and has no action here. *)
(***************************************************************************)
EXTENDS Integers, Sequences, FiniteSets, TLC

VARIABLES
    pointer,      \* the module global `pointer` (line 14): a Python dict
    pc,           \* pc[t]: where request thread t stands in its handler
    x, y,         \* x[t], y[t]: the locals x and y of set_pointer (69, 70)
    loaded,       \* loaded[t]: the dict get_pointer loaded from the global
    req,          \* req[t]: the JSON body of the POST thread t is handling
    window_list,  \* what CGWindowListCopyWindowInfo returns (lines 18-22)
    last,         \* the request completed most recently, with its response
    lastSet,      \* history: the JSON body of the latest set_pointer applied
    stable,       \* history: what the first get_pointer read since the
                  \*          latest replacement by set_pointer
    between,      \* history: what has happened since that read
    submitted,    \* history: the JSON bodies of the POSTs that passed line 71
    raced         \* history: two set_pointer replacements were pending at once

vars ==
    <<pointer, pc, x, y, loaded, req, window_list, last, lastSet, stable,
      between, submitted, raced>>

----------------------------------------------------------------------------
(* Bounds *)

NThreads == 2
Threads == 1..NThreads

\* the longest window list the OS returns
MaxWindows == 2
\* the largest Width and Height among the varied descriptors
MaxDim == 2

----------------------------------------------------------------------------
(* JSON values (on the wire) and Python values (in the handlers).          *)
(* Both are tagged tuples; json.loads / jsonify convert between them.      *)

JNull == <<"null">>
JNum(n) == <<"number", n>>
JStr(s) == <<"string", s>>

None == <<"NoneType">>
PyInt(n) == <<"int", n>>
PyStr(s) == <<"str", s>>

\* request.json (line 66): the JSON body parsed into Python values
loads(j) ==
    CASE j[1] = "number" -> PyInt(j[2])
      [] j[1] = "string" -> PyStr(j[2])
      [] j[1] = "null"   -> None

\* jsonify's encoding of one Python value (lines 55, 61, 81)
dumps(v) ==
    CASE v[1] = "int"      -> JNum(v[2])
      [] v[1] = "str"      -> JStr(v[2])
      [] v[1] = "NoneType" -> JNull

\* request.json of a JSON object: a Python dict with the same keys
request_json(body) == [k \in DOMAIN body |-> loads(body[k])]

\* dict.get(key): None when the key is absent (lines 69, 70)
get(d, k) == IF k \in DOMAIN d THEN d[k] ELSE None

\* dict.get(key, default) (lines 25-30, 36-39)
get_default(d, k, default) == IF k \in DOMAIN d THEN d[k] ELSE default

\* a variant of Truthy: `x is not None`
Truthy_is_not_none(v) == v # None

\* Python truth value, as `not x` tests it (line 71)
Truthy(v) ==
    CASE v[1] = "int"      -> v[2] # 0
      [] v[1] = "str"      -> v[2] # ""
      [] v[1] = "NoneType" -> FALSE

\* a variant of passes_check: `if not x and not y`
passes_check_and(px, py) == ~ (~ Truthy(px) /\ ~ Truthy(py))

\* line 71: `if not x or not y` is false, i.e. the request passes
passes_check(px, py) == ~ (~ Truthy(px) \/ ~ Truthy(py))

\* variants of new_pointer: an update of one key of the old dict, and a
\* store that only replaces the initial record
new_pointer_merge(old, px, py) == [x |-> px, y |-> old.y]

new_pointer_only_y(old, px, py) == [x |-> old.x, y |-> py]

new_pointer_first_wins(old, px, py) ==
    IF old = [x |-> PyInt(0), y |-> PyInt(0)] THEN [x |-> px, y |-> py] ELSE old

\* line 74: the dict bound to the global, given the dict bound before
new_pointer(old, px, py) == [x |-> px, y |-> py]

\* jsonify(pointer), line 61
jsonify_pointer(p) == [x |-> dumps(p.x), y |-> dumps(p.y)]

\* the dict with no keys, line 27's default
EmptyDict == [k \in {} |-> 0]

\* line 14
InitPointer == [x |-> PyInt(0), y |-> PyInt(0)]

----------------------------------------------------------------------------
(* The POST bodies the clients send: JSON objects with x and y present,    *)
(* absent, null, zero, non-zero, or a string.                              *)

Bodies ==
    { [x |-> JNum(5), y |-> JNum(7)],
      [x |-> JNum(7), y |-> JNum(5)],
      [x |-> JStr("s"), y |-> JNum(5)],
      [x |-> JNum(0), y |-> JNum(5)],
      [x |-> JNum(5), y |-> JNum(0)],
      [x |-> JNum(0), y |-> JNum(0)],
      [x |-> JNum(5)],
      [y |-> JNum(5)],
      [x |-> JNull, y |-> JNum(5)],
      [x |-> JNum(5), y |-> JStr("")] }

NoBody == [none |-> "body"]
NoDict == [none |-> "dict"]
NoRead == [none |-> "read"]

\* the three kinds of response body: a JSON object, a JSON array, and the
\* page Flask makes of an unhandled exception
JObject(o) == [object |-> o]
JArray(a) == [array |-> a]
ErrorPage(e) == [error |-> e]

\* line 72 raises a str, which is no exception: Python raises TypeError
\* instead, no handler catches it, and Flask answers 500
raise_str == ErrorPage("TypeError")

\* success(), line 55
success == [status |-> JStr("success"), message |-> JStr("we did it")]

\* a completed request: the handler, the JSON body sent, and the HTTP
\* status and body received
Response(op, data, status, body) ==
    [op |-> op, data |-> data, status |-> status, body |-> body]

NoResponse == Response("none", NoBody, 0, NoBody)

\* history: one more event since the read recorded in `stable`
Since(event) == IF stable = NoRead THEN {} ELSE between \cup {event}

----------------------------------------------------------------------------
(* POST /pointer, lines 64-76 *)

\* a variant of set_pointer_begin: line 74 moved above the check of line 71
set_pointer_begin_hoisted(t, body) ==
    /\ pc[t] = "idle"
    /\ LET data == request_json(body)
           px == get(data, "x")
           py == get(data, "y")
       IN  /\ pointer' = new_pointer(pointer, px, py)
           /\ IF passes_check(px, py)
              THEN /\ pc' = [pc EXCEPT ![t] = "set_store"]
                   /\ x' = [x EXCEPT ![t] = px]
                   /\ y' = [y EXCEPT ![t] = py]
                   /\ req' = [req EXCEPT ![t] = body]
                   /\ submitted' = submitted \cup {body}
                   /\ raced' = (raced \/ \E u \in Threads : pc[u] = "set_store")
                   /\ UNCHANGED <<last, between>>
              ELSE /\ last' = Response("set_pointer", body, 500, raise_str)
                   /\ between' = Since("rejected")
                   /\ UNCHANGED <<pc, x, y, req, submitted, raced>>
    /\ UNCHANGED <<loaded, window_list, lastSet, stable>>

\* lines 66-72: parse the body, read x and y, validate
set_pointer_begin(t, body) ==
    /\ pc[t] = "idle"
    /\ LET data == request_json(body)
           px == get(data, "x")
           py == get(data, "y")
       IN  IF passes_check(px, py)
           THEN /\ pc' = [pc EXCEPT ![t] = "set_store"]
                /\ x' = [x EXCEPT ![t] = px]
                /\ y' = [y EXCEPT ![t] = py]
                /\ req' = [req EXCEPT ![t] = body]
                /\ submitted' = submitted \cup {body}
                /\ raced' = (raced \/ \E u \in Threads : pc[u] = "set_store")
                /\ UNCHANGED <<last, between>>
           ELSE /\ last' = Response("set_pointer", body, 500, raise_str)
                /\ between' = Since("rejected")
                /\ UNCHANGED <<pc, x, y, req, submitted, raced>>
    /\ UNCHANGED <<pointer, loaded, window_list, lastSet, stable>>

\* lines 74-76: rebind the global, print it, answer success()
set_pointer_store(t) ==
    /\ pc[t] = "set_store"
    /\ pointer' = new_pointer(pointer, x[t], y[t])
    /\ last' = Response("set_pointer", req[t], 200, JObject(success))
    /\ lastSet' = req[t]
    /\ stable' = NoRead
    /\ between' = {}
    /\ pc' = [pc EXCEPT ![t] = "idle"]
    /\ x' = [x EXCEPT ![t] = None]
    /\ y' = [y EXCEPT ![t] = None]
    /\ req' = [req EXCEPT ![t] = NoBody]
    /\ UNCHANGED <<loaded, window_list, submitted, raced>>

----------------------------------------------------------------------------
(* GET /pointer, lines 58-61 *)

\* line 61, the read of the global: the thread now holds a reference to the
\* dict bound at this moment.  No handler mutates a dict after building it
\* (line 74 builds a new one), so the reference is a snapshot.
get_pointer_load(t) ==
    /\ pc[t] = "idle"
    /\ loaded' = [loaded EXCEPT ![t] = pointer]
    /\ stable' = (IF stable = NoRead THEN pointer ELSE stable)
    /\ between' = Since("get")
    /\ pc' = [pc EXCEPT ![t] = "get_jsonify"]
    /\ UNCHANGED <<pointer, x, y, req, window_list, last, lastSet, submitted, raced>>

\* line 61, jsonify and return
get_pointer_return(t) ==
    /\ pc[t] = "get_jsonify"
    /\ last' = Response("get_pointer", NoBody, 200, JObject(jsonify_pointer(loaded[t])))
    /\ pc' = [pc EXCEPT ![t] = "idle"]
    /\ loaded' = [loaded EXCEPT ![t] = NoDict]
    /\ UNCHANGED <<pointer, x, y, req, window_list, lastSet, stable, between,
                   submitted, raced>>

----------------------------------------------------------------------------
(* fetch_window_dims, lines 17-42 *)

\* a variant of is_not_tiny: `>= 1`
is_not_tiny_ge(bounds) ==
    get_default(bounds, "Width", 0) >= 1 /\ get_default(bounds, "Height", 0) >= 1

\* line 30
is_not_tiny(bounds) ==
    get_default(bounds, "Width", 0) > 1 /\ get_default(bounds, "Height", 0) > 1

\* line 32
is_visible(layer, is_onscreen, not_tiny) == layer = 0 /\ is_onscreen /\ not_tiny

\* a variant of window_info: y read from "X"
window_info_xx(id, name, bounds) ==
    [ id   |-> id,
      name |-> name,
      x    |-> get_default(bounds, "X", 0),
      y    |-> get_default(bounds, "X", 0),
      w    |-> get_default(bounds, "Width", 0),
      h    |-> get_default(bounds, "Height", 0) ]

\* lines 33-40
window_info(id, name, bounds) ==
    [ id   |-> id,
      name |-> name,
      x    |-> get_default(bounds, "X", 0),
      y    |-> get_default(bounds, "Y", 0),
      w    |-> get_default(bounds, "Width", 0),
      h    |-> get_default(bounds, "Height", 0) ]

\* a variant of append: insert(0, info)
append_front(visible_windows, info) == <<info>> \o visible_windows

\* line 41
append(visible_windows, info) == Append(visible_windows, info)

\* lines 24-41: the loop, from the i-th window on
RECURSIVE for_window(_, _, _)
for_window(windows, i, visible_windows) ==
    IF i > Len(windows) THEN visible_windows
    ELSE LET window      == windows[i]
             id          == get_default(window, "kCGWindowNumber", 0)
             name        == get_default(window, "kCGWindowOwnerName", "Unknown")
             bounds      == get_default(window, "kCGWindowBounds", EmptyDict)
             layer       == get_default(window, "kCGWindowLayer", 10)
             is_onscreen == get_default(window, "kCGWindowIsOnscreen", FALSE)
             not_tiny    == is_not_tiny(bounds)
         IN  for_window(windows, i + 1,
                 IF is_visible(layer, is_onscreen, not_tiny)
                 THEN append(visible_windows, window_info(id, name, bounds))
                 ELSE visible_windows)

\* lines 23 and 42
fetch_window_dims(windows) == for_window(windows, 1, <<>>)

\* GET /windows, lines 79-81
windows(t) ==
    /\ pc[t] = "idle"
    /\ last' = Response("windows", NoBody, 200, JArray(fetch_window_dims(window_list)))
    /\ between' = Since("windows")
    /\ UNCHANGED <<pointer, pc, x, y, loaded, req, window_list, lastSet, stable,
                   submitted, raced>>

----------------------------------------------------------------------------
(* The window lists the OS may return.  A descriptor is a dict in which    *)
(* any key may be missing.                                                 *)

Opt(k, S) == {EmptyDict} \cup {k :> v : v \in S}

BoundsDicts ==
    { a @@ b @@ c @@ d :
        a \in Opt("X", {5}), b \in Opt("Y", {6}),
        c \in Opt("Width", 0..MaxDim), d \in Opt("Height", 0..MaxDim) }

Descriptors ==
    { a @@ b @@ c @@ d @@ e :
        a \in Opt("kCGWindowNumber", {7}),
        b \in Opt("kCGWindowOwnerName", {"Finder"}),
        c \in Opt("kCGWindowBounds", BoundsDicts),
        d \in Opt("kCGWindowLayer", {0, 3}),
        e \in Opt("kCGWindowIsOnscreen", {TRUE, FALSE}) }

\* the three descriptors of the worked example
Typical ==
    { [ kCGWindowLayer |-> 0, kCGWindowIsOnscreen |-> TRUE,
        kCGWindowBounds |-> [Width |-> 100, Height |-> 50],
        kCGWindowNumber |-> 12, kCGWindowOwnerName |-> "Notes" ],
      [ kCGWindowLayer |-> 3, kCGWindowIsOnscreen |-> TRUE,
        kCGWindowBounds |-> [Width |-> 100, Height |-> 50] ],
      [ kCGWindowLayer |-> 0, kCGWindowIsOnscreen |-> TRUE,
        kCGWindowBounds |-> [Width |-> 1, Height |-> 1] ] }

Example ==
    << [ kCGWindowLayer |-> 0, kCGWindowIsOnscreen |-> TRUE,
         kCGWindowBounds |-> [Width |-> 100, Height |-> 50],
         kCGWindowNumber |-> 12, kCGWindowOwnerName |-> "Notes" ],
       [ kCGWindowLayer |-> 3, kCGWindowIsOnscreen |-> TRUE,
         kCGWindowBounds |-> [Width |-> 100, Height |-> 50] ],
       [ kCGWindowLayer |-> 0, kCGWindowIsOnscreen |-> TRUE,
         kCGWindowBounds |-> [Width |-> 1, Height |-> 1] ] >>

\* window_list is a list of at most MaxWindows descriptors of which at most
\* one is outside Typical
IsWindowList(wl) ==
    \/ \E n \in 0..MaxWindows : \E ty \in [1..n -> Typical] : wl = ty
    \/ \E n \in 1..MaxWindows : \E k \in 1..n :
           \E d \in Descriptors : \E ty \in [1..n \ {k} -> Typical] :
               wl = [i \in 1..n |-> IF i = k THEN d ELSE ty[i]]

----------------------------------------------------------------------------
(* Specifications *)

InitHandlers ==
    /\ pointer = InitPointer
    /\ pc = [t \in Threads |-> "idle"]
    /\ x = [t \in Threads |-> None]
    /\ y = [t \in Threads |-> None]
    /\ loaded = [t \in Threads |-> NoDict]
    /\ req = [t \in Threads |-> NoBody]
    /\ last = NoResponse
    /\ lastSet = NoBody
    /\ stable = NoRead
    /\ between = {}
    /\ submitted = {}
    /\ raced = FALSE

\* the three handlers, on the desktop of the worked example
Init == InitHandlers /\ window_list = Example

Next ==
    \E t \in Threads :
        \/ \E body \in Bodies : set_pointer_begin(t, body)
        \/ set_pointer_store(t)
        \/ get_pointer_load(t)
        \/ get_pointer_return(t)
        \/ windows(t)

Spec == Init /\ [][Next]_vars

\* /windows on every desktop of WindowLists
InitWindows == InitHandlers /\ IsWindowList(window_list)

NextWindows == \E t \in Threads : windows(t)

SpecWindows == InitWindows /\ [][NextWindows]_vars

----------------------------------------------------------------------------
(* Properties of /windows, under SpecWindows *)

\* what the statements below say of one descriptor d, with the defaults
\* written out
LayerOf(d) == IF "kCGWindowLayer" \in DOMAIN d THEN d.kCGWindowLayer ELSE 10
OnscreenOf(d) ==
    IF "kCGWindowIsOnscreen" \in DOMAIN d THEN d.kCGWindowIsOnscreen ELSE FALSE
HasBound(d, k) == "kCGWindowBounds" \in DOMAIN d /\ k \in DOMAIN d.kCGWindowBounds
BoundOf(d, k) == IF HasBound(d, k) THEN d.kCGWindowBounds[k] ELSE 0

Kept(d) ==
    /\ LayerOf(d) = 0
    /\ OnscreenOf(d) = TRUE
    /\ BoundOf(d, "Width") > 1
    /\ BoundOf(d, "Height") > 1

Expected(d) ==
    [ id   |-> IF "kCGWindowNumber" \in DOMAIN d THEN d.kCGWindowNumber ELSE 0,
      name |-> IF "kCGWindowOwnerName" \in DOMAIN d
               THEN d.kCGWindowOwnerName ELSE "Unknown",
      x    |-> BoundOf(d, "X"),
      y    |-> BoundOf(d, "Y"),
      w    |-> BoundOf(d, "Width"),
      h    |-> BoundOf(d, "Height") ]

KeptIdx == {i \in 1..Len(window_list) : Kept(window_list[i])}

\* the place in the output of the i-th descriptor, if it is kept
Rank(i) == Cardinality({k \in KeptIdx : k <= i})

WindowsAnswered == last.op = "windows"

Output == last.body.array

\* C1: a descriptor appears in the output of fetch_window_dims if and only
\* if its layer (10 when absent) is 0, its on-screen flag (false when absent)
\* is true, and its Width and Height (0 when absent) are both greater than 1;
\* the others are dropped and the call still answers 200.
C1_FilterIff ==
    WindowsAnswered =>
        /\ last.status = 200
        /\ Len(Output) = Cardinality(KeptIdx)
        /\ \A i \in 1..Len(window_list) :
              Kept(window_list[i])
                  <=> \E j \in 1..Len(Output) : Output[j] = Expected(window_list[i])

\* a list with a kept descriptor and descriptors dropped for exactly one
\* reason each: the layer, and the width
C1_Witness ==
    /\ WindowsAnswered
    /\ KeptIdx # {}
    /\ \E i \in 1..Len(window_list) :
          LET d == window_list[i]
          IN  /\ LayerOf(d) = 0 /\ OnscreenOf(d) = TRUE
              /\ BoundOf(d, "Height") > 1 /\ BoundOf(d, "Width") = 1
              /\ "kCGWindowNumber" \in DOMAIN d

\* C6: the output is an order-preserving subsequence of the enumeration:
\* some strictly increasing map sends the places of the output onto the
\* places of the kept descriptors, each kept descriptor giving one record.
C6_OrderPreserved ==
    WindowsAnswered =>
        \E f \in [1..Len(Output) -> 1..Len(window_list)] :
            /\ \A j, k \in 1..Len(Output) : j < k => f[j] < f[k]
            /\ {f[j] : j \in 1..Len(Output)} = KeptIdx
            /\ \A j \in 1..Len(Output) : Output[j] = Expected(window_list[f[j]])

\* two different kept windows, both in the output
C6_Witness ==
    /\ WindowsAnswered
    /\ Len(Output) >= 2
    /\ Output[1] # Output[2]

\* C7: the record of a kept window copies id, name, x, y, w, h from the
\* window number, the owner name and the bounds, with 0, "Unknown" and 0 for
\* what is absent.
C7_Defaults ==
    WindowsAnswered =>
        \A i \in KeptIdx :
            /\ Rank(i) <= Len(Output)
            /\ LET d == window_list[i]
                   r == Output[Rank(i)]
               IN  /\ DOMAIN r = {"id", "name", "x", "y", "w", "h"}
                   /\ r.id = (IF "kCGWindowNumber" \in DOMAIN d
                              THEN d.kCGWindowNumber ELSE 0)
                   /\ r.name = (IF "kCGWindowOwnerName" \in DOMAIN d
                                THEN d.kCGWindowOwnerName ELSE "Unknown")
                   /\ r.x = (IF HasBound(d, "X") THEN d.kCGWindowBounds.X ELSE 0)
                   /\ r.y = (IF HasBound(d, "Y") THEN d.kCGWindowBounds.Y ELSE 0)
                   /\ r.w = d.kCGWindowBounds.Width
                   /\ r.h = d.kCGWindowBounds.Height

\* a kept window with no number, no owner name, no X and a Y, after another
\* window
C7_Witness ==
    /\ WindowsAnswered
    /\ \E i \in KeptIdx :
          LET d == window_list[i]
          IN  /\ i > 1
              /\ "kCGWindowNumber" \notin DOMAIN d
              /\ "kCGWindowOwnerName" \notin DOMAIN d
              /\ ~ HasBound(d, "X")
              /\ HasBound(d, "Y")
              /\ Output[Rank(i)].name = "Unknown"

----------------------------------------------------------------------------
(* Properties of /pointer, under Spec *)

Has(body, k) == k \in DOMAIN body

\* x or y is absent or is the number 0
MissingOrZero(body) ==
    \/ ~ Has(body, "x")
    \/ ~ Has(body, "y")
    \/ body.x = JNum(0)
    \/ body.y = JNum(0)

\* x and y are both supplied and neither is null, 0 or the empty string
Supplied(body) ==
    /\ Has(body, "x") /\ body.x \notin {JNull, JNum(0), JStr("")}
    /\ Has(body, "y") /\ body.y \notin {JNull, JNum(0), JStr("")}

Applied == lastSet # NoBody

\* C2: a set_pointer whose x or y is absent or 0 ends in the error response,
\* never in success, and leaves the stored record as it was.
C2_RejectedUnchanged ==
    [][ \A t \in Threads : \A body \in Bodies :
          (MissingOrZero(body) /\ set_pointer_begin(t, body)) =>
              /\ pointer' = pointer
              /\ pc'[t] = "idle"
              /\ last'.op = "set_pointer"
              /\ last'.data = body
              /\ last'.status = 500
              /\ last'.body # JObject(success) ]_vars

\* {x:0, y:5} was rejected while a record set earlier is stored
C2_Witness ==
    /\ Applied
    /\ last.op = "set_pointer"
    /\ last.status = 500
    /\ last.data = [x |-> JNum(0), y |-> JNum(5)]
    /\ jsonify_pointer(pointer) = lastSet

\* C3: the get_pointer that reads the record after a successful set_pointer
\* {x:a, y:b}, no other set_pointer having been applied in between, returns
\* {x:a, y:b}: nothing of the record stored before survives.
C3_FullReplace ==
    [][ \A t \in Threads :
          /\ (Applied /\ get_pointer_load(t)) =>
                 jsonify_pointer(loaded'[t]) = [x |-> lastSet.x, y |-> lastSet.y]
          /\ get_pointer_return(t) =>
                 last'.body = JObject(jsonify_pointer(loaded[t])) ]_vars

\* get_pointer returned {5, 7} after {5, 7} replaced a record with another
\* x and another y
C3_Witness ==
    /\ last.op = "get_pointer"
    /\ last.body = JObject([x |-> JNum(5), y |-> JNum(7)])
    /\ lastSet = [x |-> JNum(5), y |-> JNum(7)]
    /\ [x |-> JNum(7), y |-> JNum(5)] \in submitted
    /\ \A t \in Threads : pc[t] = "idle"

\* the whole records: the initial one and those submitted
WholeRecords ==
    {jsonify_pointer(InitPointer)} \cup {[x |-> b.x, y |-> b.y] : b \in submitted}

\* C4: whatever the interleaving of set_pointer and get_pointer handlers,
\* a get_pointer reads and returns a whole record, the initial one or one
\* of those submitted, never x of one call with y of another.
C4_NoTornRead ==
    /\ \A t \in Threads :
          pc[t] = "get_jsonify" => jsonify_pointer(loaded[t]) \in WholeRecords
    /\ last.op = "get_pointer" => last.body.object \in WholeRecords

\* a get_pointer has returned a submitted record while two replacements
\* had been pending together and one still is
C4_Witness ==
    /\ raced
    /\ last.op = "get_pointer"
    /\ last.body.object \in submitted
    /\ \E t \in Threads : pc[t] = "set_store"

\* C5: the stored record always has a numeric x and a numeric y.
C5_Numeric == pointer.x[1] = "int" /\ pointer.y[1] = "int"

\* C8: once the racing set_pointer calls have completed, the stored record
\* is the whole record of the call that applied last, and no set_pointer
\* was rejected but for its own body.
C8_LastWriteWins ==
    /\ (Applied /\ \A t \in Threads : pc[t] # "set_store") =>
           jsonify_pointer(pointer) = lastSet
    /\ (last.op = "set_pointer" /\ last.status # 200) => ~ Supplied(last.data)
    /\ \A t \in Threads : pc[t] = "set_store" => Supplied(req[t])

\* two replacements were pending together and both have been applied
C8_Witness ==
    /\ raced
    /\ \A t \in Threads : pc[t] = "idle"
    /\ Cardinality(submitted) >= 2
    /\ last.op = "set_pointer"
    /\ last.status = 200
    /\ last.data = lastSet

\* C9: get_pointer leaves the stored record as it is, and reads what the
\* first get_pointer since the latest replacement read, whatever other
\* get_pointer, /windows and rejected set_pointer calls came in between.
C9_IdempotentRead ==
    [][ \A t \in Threads :
          /\ get_pointer_load(t) =>
                 /\ pointer' = pointer
                 /\ stable # NoRead => loaded'[t] = stable
          /\ get_pointer_return(t) =>
                 /\ pointer' = pointer
                 /\ last'.status = 200 ]_vars

\* a second get_pointer has read the record a first one read, a rejected
\* set_pointer and a /windows having completed in between
C9_Witness ==
    /\ Applied
    /\ between = {"get", "rejected", "windows"}
    /\ \E t \in Threads : pc[t] = "get_jsonify" /\ loaded[t] = stable

\* C10: the stored record is the initial {0, 0} or has x and y both
\* non-zero, and is never {0, 0} again once a set_pointer has succeeded.
C10_ZeroFree ==
    /\ \/ pointer = InitPointer
       \/ pointer.x # PyInt(0) /\ pointer.y # PyInt(0)
    /\ Applied => pointer # InitPointer

\* {0, 0} was refused after a set_pointer had succeeded
C10_Witness ==
    /\ Applied
    /\ last.op = "set_pointer"
    /\ last.status = 500
    /\ last.data = [x |-> JNum(0), y |-> JNum(0)]
    /\ pointer # InitPointer

====
